---------------------------- MODULE Spec2Model ----------------------------
(***************************************************************************)
(* Smart Garage Door: the perception node (controller_arduino.ino, Arduino *)
(* UNO) and the connectivity node (controller_nodemcu.ino, ESP8266),       *)
(* joined by a serial link that carries one byte per message.              *)
(*                                                                         *)
(* Each node runs a single-threaded loop().  One iteration of a loop is    *)
(* one action: the iteration is computed statement by statement on a       *)
(* record of the node's globals, in the order of the source.               *)
(***************************************************************************)
EXTENDS Integers, Sequences, FiniteSets, TLC

(***************************************************************************)
(* Bounds of the model.                                                    *)
(***************************************************************************)
\* the controller clock is read every AUTO_CLOSE_TIME \div ClockSteps ms
ClockSteps == 1
\* the gateway clock is read every GEO_INTERVAL \div GeoSteps ms
GeoSteps == 2

(***************************************************************************)
(* Program constants of the perception node.                               *)
(***************************************************************************)
ANGLE_OPEN == 90
ANGLE_CLOSED == 0
AUTO_CLOSE_TIME == 45000

(***************************************************************************)
(* Program constants of the connectivity node.  Coordinates are metres of  *)
(* great-circle arc: a latitude along the meridian from the equator, a     *)
(* longitude along the equator from Greenwich.                             *)
(***************************************************************************)
WIFI_COUNT == 2
WIFI_RETRIES == 20
HEARTBEAT_INTERVAL == 30000
MQTT_WATCHDOG_MS == 300000
RECONNECT_DELAY == 5000
GEO_INTERVAL == 5000
GEOFENCE_RADIUS == 15
\* 40.79550345107391 N, 8.57486692260615 E
DefaultGarageLat == 4536253
DefaultGarageLon == 953482
topic_cmd == "home/garage/cmd"
topic_door == "home/garage/door"
topic_gps == "home/garage/location"
topic_update_location == "home/garage/update_location"
topic_status == "home/garage/status"
topic_user_location == "home/garage/user_location"

\* commSerial.available() = 0: nothing to read
NoByte == -1
\* pulseIn() saw no echo within its 30000 us timeout
NoEcho == -1

\* The link bytes: the four known codes and two unknown ones.
KnownBytes == {0, 1, 2, 3}
LinkBytes == KnownBytes \cup {4, 255}

\* digitalRead() results
PinLevels == {"LOW", "HIGH"}

\* Echo pulse widths in microseconds: 9 cm, 10 cm, 401 cm (clamped to 400).
EchoWidths == {579, 580, 23258}
Echoes == EchoWidths \cup {NoEcho}

VARIABLES
    \* ---- perception node (controller_arduino.ino) ----
    doorOpen,       \* bool doorOpen
    userNearHome,   \* bool userNearHome
    elapsed,        \* millis() - tic, saturated above AUTO_CLOSE_TIME
    servo,          \* last angle written to garageServo
    led,            \* level of LED_PIN
    ctrlObs,        \* what the last iteration of loop() read and did
    \* ---- connectivity node (controller_nodemcu.ino) ----
    gwPc,           \* where the node is: boot, setup_wifi(), reconnect_mqtt(), loop()
    wifiIdx,        \* setup_wifi(): i
    retries,        \* setup_wifi(): retries
    wifiStatus,     \* WiFi.status() == WL_CONNECTED
    wifiLog,        \* setup_wifi(), while setup() runs: per network tried, the polls and the outcome
    gwDoorOpen,     \* bool doorOpen
    garageLat,      \* float garageLat
    garageLon,      \* float garageLon
    eeprom,         \* the record at EEPROM offsets 0, 4 and 8
    userLat,        \* float userLat
    userLon,        \* float userLon
    userInside,     \* bool userInside
    geoElapsed,     \* millis() - lastGeoCheck, saturated at GEO_INTERVAL
    scen,           \* how many evaluations since boot followed Scenario; -1: left it
    session,        \* mqttClient.connected()
    idle,           \* millis() - lastMqttActivity: 0 up to MQTT_WATCHDOG_MS, else above it
    beat,           \* millis() - lastHeartbeat: 0 up to HEARTBEAT_INTERVAL, else above it
    pending,        \* the HTTP request waiting for server.handleClient(), "" if none
    gwObs,          \* what the last iteration of loop() read and did
    \* ---- serial link ----
    g2c,            \* bytes written by the gateway, not yet read by the controller
    c2g             \* bytes written by the controller, not yet read by the gateway

ctrlVars == <<doorOpen, userNearHome, elapsed, servo, led, ctrlObs>>
linkVars == <<g2c, c2g>>
wifiVars == <<gwPc, wifiIdx, retries, wifiStatus, wifiLog>>
gwVars == <<gwDoorOpen, garageLat, garageLon, eeprom, userLat, userLon,
            userInside, geoElapsed, scen, session, idle, beat, pending, gwObs>>
vars == <<doorOpen, userNearHome, elapsed, servo, led, ctrlObs,
          gwPc, wifiIdx, retries, wifiStatus, wifiLog,
          gwDoorOpen, garageLat, garageLon, eeprom, userLat, userLon,
          userInside, geoElapsed, scen, session, idle, beat, pending, gwObs,
          g2c, c2g>>

(***************************************************************************)
(* Perception node.                                                        *)
(***************************************************************************)

\* pulseIn(ECHO_PIN, HIGH, 30000): the width of the echo pulse, 0 on timeout.
pulseIn(echo) == IF echo = NoEcho THEN 0 ELSE echo

\* measureDistanceCM(): duration / 58, clamped to 400.
measureDistanceCM(echo) ==
    LET duration == pulseIn(echo)
        distance == duration \div 58
    IN  IF distance > 400 THEN 400 ELSE distance

\* The globals of the node as a record, with the bytes written to commSerial
\* (out) and the sweeps run (acts) since the iteration began.
CtrlState == [doorOpen |-> doorOpen, userNearHome |-> userNearHome,
              elapsed |-> elapsed, servo |-> servo, led |-> led,
              out |-> <<>>, acts |-> <<>>]

\* openDoor() without tic = millis().
openDoor_NoRearm(c) ==
    [c EXCEPT !.servo = ANGLE_OPEN, !.led = "HIGH", !.out = Append(@, 1),
              !.doorOpen = TRUE, !.acts = Append(@, "open")]

\* openDoor(): sweep ANGLE_CLOSED..ANGLE_OPEN, LED on, status 0x01,
\* doorOpen = true, tic = millis().
openDoor(c) ==
    [c EXCEPT !.servo = ANGLE_OPEN, !.led = "HIGH", !.out = Append(@, 1),
              !.doorOpen = TRUE, !.elapsed = 0, !.acts = Append(@, "open")]

\* closeDoor() without the status byte.
closeDoor_Silent(c) ==
    [c EXCEPT !.servo = ANGLE_CLOSED, !.led = "LOW",
              !.doorOpen = FALSE, !.acts = Append(@, "close")]

\* closeDoor(): sweep ANGLE_OPEN..ANGLE_CLOSED, LED off, status 0x00,
\* doorOpen = false.  tic is left alone.
closeDoor(c) ==
    [c EXCEPT !.servo = ANGLE_CLOSED, !.led = "LOW", !.out = Append(@, 0),
              !.doorOpen = FALSE, !.acts = Append(@, "close")]

\* AutoOpenStep without the geofence condition.
AutoOpenStep_MotionOnly(c, pirState) ==
    IF pirState = "HIGH" /\ ~c.doorOpen
    THEN openDoor(c) ELSE c

\* loop(), FR5a + FR5b: automatic opening.
AutoOpenStep(c, pirState) ==
    IF pirState = "HIGH" /\ c.userNearHome /\ ~c.doorOpen
    THEN openDoor(c) ELSE c

\* loop(), FR7: the manual button (INPUT_PULLUP: LOW = pressed).
ManualStep(c, buttonState) ==
    IF buttonState = "LOW"
    THEN (IF c.doorOpen THEN closeDoor(c) ELSE openDoor(c))
    ELSE c

\* RemoteStep without the branch for 0x03.
RemoteStep_ExitIgnored(c, cmd) ==
    CASE cmd = 1 -> openDoor(c)
      [] cmd = 0 -> closeDoor(c)
      [] cmd = 2 -> [c EXCEPT !.userNearHome = TRUE]
      [] OTHER -> c

\* RemoteStep with the geofence entry opening the door.
RemoteStep_EnterOpens(c, cmd) ==
    CASE cmd = 1 -> openDoor(c)
      [] cmd = 0 -> closeDoor(c)
      [] cmd = 2 -> openDoor([c EXCEPT !.userNearHome = TRUE])
      [] cmd = 3 -> [c EXCEPT !.userNearHome = FALSE]
      [] OTHER -> c

\* RemoteStep with 0x01 handled as a toggle, like the button.
RemoteStep_Toggle(c, cmd) ==
    CASE cmd = 1 -> (IF c.doorOpen THEN closeDoor(c) ELSE openDoor(c))
      [] cmd = 0 -> closeDoor(c)
      [] cmd = 2 -> [c EXCEPT !.userNearHome = TRUE]
      [] cmd = 3 -> [c EXCEPT !.userNearHome = FALSE]
      [] OTHER -> c

\* RemoteStep with a final else in place of else if (cmd == 0x03).
RemoteStep_FinalElse(c, cmd) ==
    CASE cmd = 1 -> openDoor(c)
      [] cmd = 0 -> closeDoor(c)
      [] cmd = 2 -> [c EXCEPT !.userNearHome = TRUE]
      [] OTHER -> [c EXCEPT !.userNearHome = FALSE]

\* loop(): the byte read from commSerial.  A byte above 0x03 makes loop()
\* return (see Returned); RemoteStep is then the identity.
RemoteStep(c, cmd) ==
    CASE cmd = 1 -> openDoor(c)
      [] cmd = 0 -> closeDoor(c)
      [] cmd = 2 -> [c EXCEPT !.userNearHome = TRUE]
      [] cmd = 3 -> [c EXCEPT !.userNearHome = FALSE]
      [] OTHER -> c

\* loop(): if (cmd > 0x03) return;
Returned(cmd) == cmd # NoByte /\ cmd > 3

\* AutoCloseStep without the timer.
AutoCloseStep_NoTimer(c, pirState, distance) ==
    IF c.doorOpen /\ pirState = "LOW"
    THEN (IF distance < 10 THEN openDoor(c) ELSE closeDoor(c))
    ELSE c

\* AutoCloseStep without the obstacle check.
AutoCloseStep_NoObstacleCheck(c, pirState, distance) ==
    IF c.doorOpen /\ c.elapsed > AUTO_CLOSE_TIME /\ pirState = "LOW"
    THEN closeDoor(c)
    ELSE c

\* loop(), FR4 + FR8: automatic closing and the obstacle override.
AutoCloseStep(c, pirState, distance) ==
    IF c.doorOpen /\ c.elapsed > AUTO_CLOSE_TIME /\ pirState = "LOW"
    THEN (IF distance < 10 THEN openDoor(c) ELSE closeDoor(c))
    ELSE c

\* The time between two readings of millis() at the timer check.  The
\* iterations in between that read nothing and find the timer not elapsed
\* change nothing and are left out.
TickTime == AUTO_CLOSE_TIME \div ClockSteps

\* millis() - tic, TickTime later.  Only the comparison with AUTO_CLOSE_TIME
\* reads it, so every value above AUTO_CLOSE_TIME is kept as one.
Later(t) ==
    IF t + TickTime > AUTO_CLOSE_TIME THEN AUTO_CLOSE_TIME + 1 ELSE t + TickTime

\* One iteration of loop().  The sensors are read once, at the top.  A sweep
\* blocks, so nothing else happens on the node meanwhile.  If the door is
\* open at the timer check and a sweep ran in this iteration, that sweep was
\* openDoor() and tic is a few hundred ms old; otherwise the iteration took
\* milliseconds: time is therefore let pass between iterations only.
CtrlLoopOn(rx, pirState, buttonState, echo) ==
    LET distance == measureDistanceCM(echo)
        c0 == CtrlState
        c1 == AutoOpenStep(c0, pirState)
        c2 == ManualStep(c1, buttonState)
        avail == rx # <<>>
        cmd == IF avail THEN Head(rx) ELSE NoByte
        c3 == IF avail THEN RemoteStep(c2, cmd) ELSE c2
        c4 == IF Returned(cmd) THEN c3 ELSE AutoCloseStep(c3, pirState, distance)
    IN  /\ doorOpen' = c4.doorOpen
        /\ userNearHome' = c4.userNearHome
        /\ servo' = c4.servo
        /\ led' = c4.led
        /\ elapsed' = Later(c4.elapsed)
        /\ g2c' = IF avail THEN Tail(rx) ELSE rx
        /\ c2g' = c2g \o c4.out
        /\ UNCHANGED <<wifiVars, gwVars>>
        /\ ctrlObs' = [ticked |-> TRUE,
                       pirState |-> pirState, buttonState |-> buttonState,
                       echo |-> echo, distance |-> distance, cmd |-> cmd,
                       returned |-> Returned(cmd),
                       atStart |-> c0, afterAuto |-> c1, afterManual |-> c2,
                       afterLink |-> c3, atEnd |-> c4,
                       held |-> (ctrlObs.buttonState = "LOW"),
                       afterOpenCmd |-> IF ctrlObs.cmd = NoByte
                                        THEN ctrlObs.afterOpenCmd
                                        ELSE ctrlObs.cmd = 1]

\* loop() of the perception node, reading the link as it is.
CtrlLoop(pirState, buttonState, echo) ==
    CtrlLoopOn(g2c, pirState, buttonState, echo)

\* The state after setup() of the perception node.
CtrlInit ==
    /\ doorOpen = FALSE
    /\ userNearHome = FALSE
    /\ elapsed = 0
    /\ servo = ANGLE_CLOSED
    /\ led = "LOW"
    /\ ctrlObs = [ticked |-> FALSE,
                  pirState |-> "LOW", buttonState |-> "HIGH",
                  echo |-> NoEcho, distance |-> 0, cmd |-> NoByte,
                  returned |-> FALSE,
                  atStart |-> CtrlState, afterAuto |-> CtrlState,
                  afterManual |-> CtrlState, afterLink |-> CtrlState,
                  atEnd |-> CtrlState,
                  held |-> FALSE, afterOpenCmd |-> FALSE]

(***************************************************************************)
(* Connectivity node.                                                      *)
(***************************************************************************)

\* A member of a JSON document: <<>> when absent, <<v>> when present.
\* doc[key] | dflt
Or(member, dflt) == IF member = <<>> THEN dflt ELSE member[1]

\* An inbound publication: its topic, whether deserializeJson() accepts the
\* payload, and the members the callback reads.
Msg(topic, json, value, lat, lon) ==
    [topic |-> topic, json |-> json, value |-> value, lat |-> lat, lon |-> lon]
NoMsg == Msg("", TRUE, <<>>, <<>>, <<>>)

\* The user positions sent: none yet (0, 0), and points on the meridian of
\* the default garage position, at these distances north of it.
UserOffsets == {12, 15, 16, 18, 22, 30, 35, 36, 40}
UserMsgs ==
    {Msg(topic_user_location, TRUE, <<>>, <<DefaultGarageLat + d>>,
         <<DefaultGarageLon>>) : d \in UserOffsets}
    \cup {Msg(topic_user_location, TRUE, <<>>, <<0>>, <<0>>),
          Msg(topic_user_location, TRUE, <<>>, <<>>, <<>>)}

\* Location updates: each coordinate absent, zero or new.
UpdateMsgs ==
    {Msg(topic_update_location, TRUE, <<>>, lat, lon) :
        lat \in {<<>>, <<0>>, <<DefaultGarageLat + 100>>},
        lon \in {<<>>, <<0>>, <<DefaultGarageLon>>}}

\* Commands: open, close, no value, a value that is no command.
CmdMsgs == {Msg(topic_cmd, TRUE, value, <<>>, <<>>) :
                value \in {<<1>>, <<0>>, <<>>, <<7>>}}

\* Payloads that are not JSON.
BadMsgs == {Msg(topic, FALSE, <<>>, <<>>, <<>>) :
                topic \in {topic_cmd, topic_update_location, topic_user_location}}

\* HTTP requests served by handleClient(); "" when no client is waiting.
HttpRequests == {"", "/apri", "/chiudi", "/status", "/other"}

\* EEPROM as found at power-on: erased flash, or a record saved earlier.
ErasedEeprom == [lat |-> -1, lon |-> -1, valid |-> 255]
SavedEeprom == [lat |-> DefaultGarageLat + 50, lon |-> DefaultGarageLon, valid |-> 1]
EepromAtBoot == {ErasedEeprom, SavedEeprom}

\* The distances of the scenario of the specification, in metres.
Scenario == <<30, 18, 12, 22, 40>>

\* The globals of the node as a record, with what the iteration did so far:
\* the bytes written to commSerial (tx), the publications (pub), the calls
\* of saveGarageLocation() (saves), the distances updateGeofence() computed
\* (evals), the HTTP responses sent (resp) and the topics subscribed (subs).
GwState == [doorOpen |-> gwDoorOpen, garageLat |-> garageLat,
            garageLon |-> garageLon, eeprom |-> eeprom,
            userLat |-> userLat, userLon |-> userLon,
            userInside |-> userInside, geoElapsed |-> geoElapsed,
            session |-> session, idle |-> idle, beat |-> beat,
            tx |-> <<>>, pub |-> <<>>, saves |-> 0, evals |-> <<>>,
            resp |-> <<>>, subs |-> {}]

\* saveGarageLocation(): latitude, longitude, validity marker, commit.
saveGarageLocation(g, lat, lon) ==
    [g EXCEPT !.eeprom = [lat |-> lat, lon |-> lon, valid |-> 1],
              !.saves = @ + 1]

\* loadGarageLocation() taking any non-zero marker for a saved record.
loadGarageLocation_AnyMarker(g) ==
    IF g.eeprom.valid = 0
    THEN [ok |-> FALSE, g |-> g]
    ELSE [ok |-> TRUE,
          g |-> [g EXCEPT !.garageLat = g.eeprom.lat, !.garageLon = g.eeprom.lon]]

\* loadGarageLocation(lat, lon): false, the arguments untouched, unless the
\* marker is 1.
loadGarageLocation(g) ==
    IF g.eeprom.valid # 1
    THEN [ok |-> FALSE, g |-> g]
    ELSE [ok |-> TRUE,
          g |-> [g EXCEPT !.garageLat = g.eeprom.lat, !.garageLon = g.eeprom.lon]]

\* mqttClient.publish(): the message goes out if the session is up.
Publish(g, m) == IF g.session THEN [g EXCEPT !.pub = Append(@, m)] ELSE g

\* publishGarageLocation()
publishGarageLocation(g) ==
    Publish(g, [topic |-> topic_gps, lat |-> g.garageLat, lon |-> g.garageLon])

\* publishStatus(): returns at once without a session.
publishStatus(g) ==
    IF ~g.session THEN g
    ELSE Publish(g, [topic |-> topic_status,
                     door_open |-> IF g.doorOpen THEN 1 ELSE 0,
                     lat |-> g.garageLat, lon |-> g.garageLon])

Abs(x) == IF x < 0 THEN -x ELSE x

\* haversine(): the great-circle distance in metres.  Between two points of
\* one meridian it is the arc between their latitudes; the model evaluates
\* it for such points only.
haversine(lat1, lon1, lat2, lon2) ==
    CASE lon1 = lon2 -> Abs(lat2 - lat1)

\* updateGeofence() with the exit threshold at the radius, without the margin.
updateGeofence_NoHysteresis(g) ==
    IF g.geoElapsed < GEO_INTERVAL THEN g
    ELSE LET g1 == [g EXCEPT !.geoElapsed = 0]
         IN  IF g1.userLat = 0 /\ g1.userLon = 0 THEN g1
             ELSE LET dist == haversine(g1.userLat, g1.userLon,
                                        g1.garageLat, g1.garageLon)
                      g2 == [g1 EXCEPT !.evals = Append(@, dist)]
                  IN  IF ~g2.userInside /\ dist <= GEOFENCE_RADIUS
                      THEN [g2 EXCEPT !.userInside = TRUE, !.tx = Append(@, 2)]
                      ELSE IF g2.userInside /\ dist > GEOFENCE_RADIUS
                      THEN [g2 EXCEPT !.userInside = FALSE, !.tx = Append(@, 3)]
                      ELSE g2

\* updateGeofence() writing its byte at every evaluation, not at changes only.
updateGeofence_LevelTriggered(g) ==
    IF g.geoElapsed < GEO_INTERVAL THEN g
    ELSE LET g1 == [g EXCEPT !.geoElapsed = 0]
         IN  IF g1.userLat = 0 /\ g1.userLon = 0 THEN g1
             ELSE LET dist == haversine(g1.userLat, g1.userLon,
                                        g1.garageLat, g1.garageLon)
                      g2 == [g1 EXCEPT !.evals = Append(@, dist)]
                  IN  IF dist <= GEOFENCE_RADIUS
                      THEN [g2 EXCEPT !.userInside = TRUE, !.tx = Append(@, 2)]
                      ELSE IF g2.userInside /\ dist > GEOFENCE_RADIUS + 20
                      THEN [g2 EXCEPT !.userInside = FALSE, !.tx = Append(@, 3)]
                      ELSE g2

\* updateGeofence() evaluating the position (0, 0) like any other: it is
\* thousands of kilometres from the garage.
updateGeofence_ZeroEvaluated(g) ==
    IF g.geoElapsed < GEO_INTERVAL THEN g
    ELSE LET g1 == [g EXCEPT !.geoElapsed = 0]
             dist == IF g1.userLat = 0 /\ g1.userLon = 0
                     THEN Abs(g1.garageLat) + Abs(g1.garageLon)
                     ELSE haversine(g1.userLat, g1.userLon,
                                    g1.garageLat, g1.garageLon)
             g2 == [g1 EXCEPT !.evals = Append(@, dist)]
         IN  IF ~g2.userInside /\ dist <= GEOFENCE_RADIUS
             THEN [g2 EXCEPT !.userInside = TRUE, !.tx = Append(@, 2)]
             ELSE IF g2.userInside /\ dist > GEOFENCE_RADIUS + 20
             THEN [g2 EXCEPT !.userInside = FALSE, !.tx = Append(@, 3)]
             ELSE g2

\* updateGeofence() sending the entry without recording it.
updateGeofence_EnterNotRecorded(g) ==
    IF g.geoElapsed < GEO_INTERVAL THEN g
    ELSE LET g1 == [g EXCEPT !.geoElapsed = 0]
         IN  IF g1.userLat = 0 /\ g1.userLon = 0 THEN g1
             ELSE LET dist == haversine(g1.userLat, g1.userLon,
                                        g1.garageLat, g1.garageLon)
                      g2 == [g1 EXCEPT !.evals = Append(@, dist)]
                  IN  IF ~g2.userInside /\ dist <= GEOFENCE_RADIUS
                      THEN [g2 EXCEPT !.tx = Append(@, 2)]
                      ELSE IF g2.userInside /\ dist > GEOFENCE_RADIUS + 20
                      THEN [g2 EXCEPT !.userInside = FALSE, !.tx = Append(@, 3)]
                      ELSE g2

\* updateGeofence(): every GEO_INTERVAL, unless the user position is (0, 0),
\* enter at dist <= GEOFENCE_RADIUS, exit at dist > GEOFENCE_RADIUS + 20.
updateGeofence(g) ==
    IF g.geoElapsed < GEO_INTERVAL THEN g
    ELSE LET g1 == [g EXCEPT !.geoElapsed = 0]
         IN  IF g1.userLat = 0 /\ g1.userLon = 0 THEN g1
             ELSE LET dist == haversine(g1.userLat, g1.userLon,
                                        g1.garageLat, g1.garageLon)
                      g2 == [g1 EXCEPT !.evals = Append(@, dist)]
                  IN  IF ~g2.userInside /\ dist <= GEOFENCE_RADIUS
                      THEN [g2 EXCEPT !.userInside = TRUE, !.tx = Append(@, 2)]
                      ELSE IF g2.userInside /\ dist > GEOFENCE_RADIUS + 20
                      THEN [g2 EXCEPT !.userInside = FALSE, !.tx = Append(@, 3)]
                      ELSE g2

\* mqttCallback(), update_location branch, without the test for (0, 0).
UpdateLocation_NoZeroTest(g, msg) ==
    LET newLat == Or(msg.lat, 0)
        newLon == Or(msg.lon, 0)
        g1 == [g EXCEPT !.garageLat = newLat, !.garageLon = newLon]
    IN  publishGarageLocation(saveGarageLocation(g1, g1.garageLat, g1.garageLon))

\* mqttCallback(), update_location branch, publishing before it assigns.
UpdateLocation_PublishFirst(g, msg) ==
    LET newLat == Or(msg.lat, 0)
        newLon == Or(msg.lon, 0)
    IN  IF newLat = 0 /\ newLon = 0 THEN g
        ELSE LET g1 == publishGarageLocation(g)
                 g2 == [g1 EXCEPT !.garageLat = newLat, !.garageLon = newLon]
             IN  saveGarageLocation(g2, g2.garageLat, g2.garageLon)

\* mqttCallback(), update_location branch.
UpdateLocation(g, msg) ==
    LET newLat == Or(msg.lat, 0)
        newLon == Or(msg.lon, 0)
    IN  IF newLat = 0 /\ newLon = 0 THEN g
        ELSE LET g1 == [g EXCEPT !.garageLat = newLat, !.garageLon = newLon]
             IN  publishGarageLocation(
                     saveGarageLocation(g1, g1.garageLat, g1.garageLon))

\* mqttCallback() without lastMqttActivity = millis().
mqttCallback_NoActivity(g, msg) ==
    IF ~msg.json THEN g
    ELSE CASE msg.topic = topic_cmd ->
                LET value == Or(msg.value, -1)
                IN  IF value = 1 THEN [g EXCEPT !.tx = Append(@, 1)]
                    ELSE IF value = 0 THEN [g EXCEPT !.tx = Append(@, 0)]
                    ELSE g
           [] msg.topic = topic_update_location -> UpdateLocation(g, msg)
           [] msg.topic = topic_user_location ->
                [g EXCEPT !.userLat = Or(msg.lat, 0), !.userLon = Or(msg.lon, 0)]
           [] OTHER -> g

\* mqttCallback() opening on any value but 0, the missing one included.
mqttCallback_Truthy(g0, msg) ==
    LET g == [g0 EXCEPT !.idle = 0]
    IN  IF ~msg.json THEN g
        ELSE CASE msg.topic = topic_cmd ->
                    LET value == Or(msg.value, -1)
                    IN  IF value # 0 THEN [g EXCEPT !.tx = Append(@, 1)]
                        ELSE [g EXCEPT !.tx = Append(@, 0)]
               [] msg.topic = topic_update_location -> UpdateLocation(g, msg)
               [] msg.topic = topic_user_location ->
                    [g EXCEPT !.userLat = Or(msg.lat, 0),
                              !.userLon = Or(msg.lon, 0)]
               [] OTHER -> g

\* mqttCallback() taking the command for done: the mirror of the door state
\* follows the command.
mqttCallback_SetsMirror(g0, msg) ==
    LET g == [g0 EXCEPT !.idle = 0]
    IN  IF ~msg.json THEN g
        ELSE CASE msg.topic = topic_cmd ->
                    LET value == Or(msg.value, -1)
                    IN  IF value = 1
                        THEN [g EXCEPT !.tx = Append(@, 1), !.doorOpen = TRUE]
                        ELSE IF value = 0
                        THEN [g EXCEPT !.tx = Append(@, 0), !.doorOpen = FALSE]
                        ELSE g
               [] msg.topic = topic_update_location -> UpdateLocation(g, msg)
               [] msg.topic = topic_user_location ->
                    [g EXCEPT !.userLat = Or(msg.lat, 0),
                              !.userLon = Or(msg.lon, 0)]
               [] OTHER -> g

\* mqttCallback(topic, payload, length)
mqttCallback(g0, msg) ==
    LET g == [g0 EXCEPT !.idle = 0]
    IN  IF ~msg.json THEN g
        ELSE CASE msg.topic = topic_cmd ->
                    LET value == Or(msg.value, -1)
                    IN  IF value = 1 THEN [g EXCEPT !.tx = Append(@, 1)]
                        ELSE IF value = 0 THEN [g EXCEPT !.tx = Append(@, 0)]
                        ELSE g
               [] msg.topic = topic_update_location -> UpdateLocation(g, msg)
               [] msg.topic = topic_user_location ->
                    [g EXCEPT !.userLat = Or(msg.lat, 0),
                              !.userLon = Or(msg.lon, 0)]
               [] OTHER -> g

\* The topics reconnect_mqtt() subscribes.
Subscriptions == {topic_cmd, topic_update_location, topic_user_location}

\* reconnect_mqtt() without the subscriptions.
reconnect_mqtt_NoSubscribe(g) ==
    IF g.session THEN g
    ELSE LET g1 == [g EXCEPT !.session = TRUE]
             g2 == publishStatus(publishGarageLocation(g1))
         IN  [g2 EXCEPT !.idle = 0]

\* reconnect_mqtt(), the broker accepting the connection: returns at once
\* with a session; else connects, subscribes, publishes the garage position
\* and a heartbeat, and restarts the watchdog.
reconnect_mqtt(g) ==
    IF g.session THEN g
    ELSE LET g1 == [g EXCEPT !.session = TRUE, !.subs = Subscriptions]
             g2 == publishStatus(publishGarageLocation(g1))
         IN  [g2 EXCEPT !.idle = 0]

\* loop(): the watchdog has to fire.
WatchdogDue(g) == g.idle > MQTT_WATCHDOG_MS

\* loop(): the watchdog, up to its call of reconnect_mqtt().
WatchdogStep(g) ==
    IF WatchdogDue(g) THEN [g EXCEPT !.idle = 0, !.session = FALSE] ELSE g

\* loop(): the periodic heartbeat.
HeartbeatStep(g) ==
    IF g.beat > HEARTBEAT_INTERVAL THEN [publishStatus(g) EXCEPT !.beat = 0]
    ELSE g

\* loop(): the door state reported by the controller.
SerialStep(g, state) ==
    LET g1 == [g EXCEPT !.doorOpen = (state = 1)]
    IN  Publish(g1, [topic |-> topic_door,
                     value |-> IF g1.doorOpen THEN 1 ELSE 0])

\* server.handleClient(): the handlers registered in setup().
handleClient(g, request) ==
    CASE request = "" -> g
      [] request = "/apri" ->
            [g EXCEPT !.tx = Append(@, 1),
                      !.resp = Append(@, [code |-> 200, door |-> -1])]
      [] request = "/chiudi" ->
            [g EXCEPT !.tx = Append(@, 0),
                      !.resp = Append(@, [code |-> 200, door |-> -1])]
      [] request = "/status" ->
            [g EXCEPT !.resp = Append(@, [code |-> 200,
                                          door |-> IF g.doorOpen THEN 1 ELSE 0])]
      [] OTHER -> [g EXCEPT !.resp = Append(@, [code |-> 404, door |-> -1])]

\* millis() - lastGeoCheck, dt later.  Only the comparison with GEO_INTERVAL
\* reads it, so every value from GEO_INTERVAL on is kept as one.
LaterGeo(t, dt) == IF t + dt >= GEO_INTERVAL THEN GEO_INTERVAL ELSE t + dt

\* The time between two readings of millis() in updateGeofence().
GwTickTime == GEO_INTERVAL \div GeoSteps

\* The scenario followed so far, after the distances evaluated now.
ScenAfter(k, evals) ==
    IF evals = <<>> THEN k
    ELSE IF k >= 0 /\ k < Len(Scenario) /\ evals[1] = Scenario[k + 1]
    THEN k + 1 ELSE -1

\* loop() up to the watchdog's call of reconnect_mqtt(): the session is
\* restored if it is down, mqttClient.loop() delivers at most one publication
\* to mqttCallback(), and the watchdog tears the session down if it is due.
LoopHead(g0, msg) ==
    LET g1 == reconnect_mqtt(g0)
        g2 == IF msg = NoMsg THEN g1 ELSE mqttCallback(g1, msg)
    IN  [msg |-> msg, atStart |-> g0, afterConnect |-> g1,
         afterCallback |-> g2, fired |-> WatchdogDue(g2),
         torn |-> WatchdogStep(g2)]

\* loop() from the return of the watchdog's reconnect_mqtt(): the heartbeat,
\* the report byte, the geofence and the HTTP client.  rx is what commSerial
\* holds.
LoopTail(g3, rx, request) ==
    LET g4 == HeartbeatStep(g3)
        avail == rx # <<>>
        state == IF avail THEN Head(rx) ELSE NoByte
        g5 == IF avail THEN SerialStep(g4, state) ELSE g4
        g6 == updateGeofence(g5)
        g7 == handleClient(g6, request)
    IN  [request |-> request, state |-> state, afterDog |-> g3,
         afterBeat |-> g4, afterSerial |-> g5, afterGeo |-> g6, atEnd |-> g7,
         geoTx |-> SubSeq(g6.tx, Len(g5.tx) + 1, Len(g6.tx))]

\* The globals take the values of g; the bytes g wrote go to the link.
GwStore(g) ==
    /\ gwDoorOpen' = g.doorOpen
    /\ garageLat' = g.garageLat
    /\ garageLon' = g.garageLon
    /\ eeprom' = g.eeprom
    /\ userLat' = g.userLat
    /\ userLon' = g.userLon
    /\ userInside' = g.userInside
    /\ session' = g.session
    /\ idle' = g.idle
    /\ beat' = g.beat
    /\ g2c' = g2c \o g.tx

\* The iteration ends: the head h and the tail after it, then delay(50).
LoopFinish(h, rx, request) ==
    LET t == LoopTail(reconnect_mqtt(h.torn), rx, request)
        g == t.atEnd
    IN  /\ GwStore(g)
        /\ gwPc' = "loop"
        /\ geoElapsed' = LaterGeo(g.geoElapsed, GwTickTime)
        /\ scen' = ScenAfter(scen, g.evals)
        /\ c2g' = IF rx # <<>> THEN Tail(rx) ELSE rx
        /\ pending' = ""
        /\ gwObs' = [looped |-> TRUE, msg |-> h.msg, request |-> t.request,
                     state |-> t.state, fired |-> h.fired,
                     atStart |-> h.atStart, afterConnect |-> h.afterConnect,
                     afterCallback |-> h.afterCallback, afterDog |-> t.afterDog,
                     afterBeat |-> t.afterBeat, afterSerial |-> t.afterSerial,
                     afterGeo |-> t.afterGeo, atEnd |-> t.atEnd,
                     geoTx |-> t.geoTx]
        /\ UNCHANGED <<ctrlVars, wifiIdx, retries, wifiStatus, wifiLog>>

\* The watchdog's reconnect_mqtt() does not connect: the node stays in its
\* while loop, the session torn down and the watchdog restarted.
LoopBlock(h) ==
    /\ GwStore(h.torn)
    /\ gwPc' = "watchdog"
    /\ gwObs' = [gwObs EXCEPT !.looped = FALSE, !.msg = h.msg,
                              !.fired = h.fired, !.atStart = h.atStart,
                              !.afterConnect = h.afterConnect,
                              !.afterCallback = h.afterCallback]
    /\ UNCHANGED <<geoElapsed, scen, c2g, pending, ctrlVars, wifiIdx, retries,
                   wifiStatus, wifiLog>>

\* One iteration of loop().  accept: the broker accepts the connection that
\* reconnect_mqtt() attempts.  At the top of loop() a node without a session
\* gets past reconnect_mqtt() only if it does.
GwLoopOn(rx, msg, request, accept) ==
    LET h == LoopHead(GwState, msg)
    IN  /\ gwPc = "loop"
        /\ session \/ accept
        /\ IF h.fired /\ ~accept THEN LoopBlock(h)
           ELSE LoopFinish(h, rx, request)

\* reconnect_mqtt() called by the watchdog connects and loop() goes on.
GwLoopResume(rx, request) ==
    /\ gwPc = "watchdog"
    /\ LoopFinish([msg |-> gwObs.msg, atStart |-> gwObs.atStart,
                   afterConnect |-> gwObs.afterConnect,
                   afterCallback |-> gwObs.afterCallback,
                   fired |-> gwObs.fired, torn |-> GwState], rx, request)

\* reconnect_mqtt() in loop(): an attempt that fails, then delay(5000).
ReconnectRetry ==
    /\ gwPc = "watchdog" \/ (gwPc = "loop" /\ ~session)
    /\ geoElapsed' = LaterGeo(geoElapsed, RECONNECT_DELAY)
    /\ UNCHANGED <<gwPc, wifiIdx, retries, wifiStatus, wifiLog, gwDoorOpen,
                   garageLat, garageLon, eeprom, userLat, userLon, userInside,
                   scen, session, idle, beat, pending, gwObs, ctrlVars,
                   linkVars>>

\* loop() of the connectivity node, reading the link as it is.
GwLoop(msg, request) == GwLoopOn(c2g, msg, request, TRUE)

\* The globals at their initializers, the EEPROM holding e.
GwGlobals(e) == [doorOpen |-> FALSE, garageLat |-> 0, garageLon |-> 0,
                 eeprom |-> e, userLat |-> 0, userLon |-> 0,
                 userInside |-> FALSE, geoElapsed |-> 0,
                 session |-> FALSE, idle |-> 0, beat |-> 0,
                 tx |-> <<>>, pub |-> <<>>, saves |-> 0, evals |-> <<>>,
                 resp |-> <<>>, subs |-> {}]

\* No iteration of loop() yet.
NoGwObs(e) == [looped |-> FALSE, msg |-> NoMsg, request |-> "",
               state |-> NoByte, fired |-> FALSE,
               atStart |-> GwGlobals(e), afterConnect |-> GwGlobals(e),
               afterCallback |-> GwGlobals(e), afterDog |-> GwGlobals(e),
               afterBeat |-> GwGlobals(e),
               afterSerial |-> GwGlobals(e), afterGeo |-> GwGlobals(e),
               atEnd |-> GwGlobals(e), geoTx |-> <<>>]

\* Power-on of the connectivity node, the EEPROM holding e.
GwPowerOn(e) ==
    /\ eeprom = e
    /\ gwPc = "boot"
    /\ wifiIdx = 0 /\ retries = 0 /\ wifiStatus = FALSE /\ wifiLog = <<>>
    /\ gwDoorOpen = FALSE
    /\ garageLat = 0 /\ garageLon = 0
    /\ userLat = 0 /\ userLon = 0
    /\ userInside = FALSE
    /\ geoElapsed = 0
    /\ scen = 0
    /\ session = FALSE /\ idle = 0 /\ beat = 0 /\ pending = ""
    /\ gwObs = NoGwObs(e)

GwInit == \E e \in EepromAtBoot : GwPowerOn(e)

\* setup() up to the call of setup_wifi(): the garage position from the
\* EEPROM, or the default one, saved.
GwSetup ==
    LET l == loadGarageLocation(GwState)
        g == IF l.ok THEN l.g
             ELSE LET d == [l.g EXCEPT !.garageLat = DefaultGarageLat,
                                       !.garageLon = DefaultGarageLon]
                  IN  saveGarageLocation(d, d.garageLat, d.garageLon)
    IN  /\ gwPc = "boot"
        /\ garageLat' = g.garageLat
        /\ garageLon' = g.garageLon
        /\ eeprom' = g.eeprom
        /\ gwPc' = "wifi_begin"
        /\ wifiIdx' = 0
        /\ UNCHANGED <<retries, wifiStatus, wifiLog, gwDoorOpen, userLat, userLon,
                       userInside, geoElapsed, scen, session, idle, beat,
                       pending, gwObs, ctrlVars, linkVars>>

\* setup_wifi(): WiFi.begin(ssid_list[i], pass_list[i]); retries = 0.  The
\* station may be associated already when the polling starts.
WifiBegin ==
    /\ gwPc = "wifi_begin"
    /\ wifiIdx < WIFI_COUNT
    /\ retries' = 0
    /\ wifiStatus' \in BOOLEAN
    /\ gwPc' = "wifi_poll"
    /\ UNCHANGED <<wifiIdx, wifiLog, gwVars, ctrlVars, linkVars>>

\* WifiPoll polling without a bound.
WifiPoll_Unbounded ==
    /\ gwPc = "wifi_poll"
    /\ ~wifiStatus
    /\ retries' = IF retries < WIFI_RETRIES + 1 THEN retries + 1 ELSE retries
    /\ wifiStatus' \in BOOLEAN
    /\ UNCHANGED <<gwPc, wifiIdx, wifiLog, gwVars, ctrlVars, linkVars>>

\* setup_wifi(): one turn of the while loop: delay(500); retries++.  The
\* status changes only while the sketch waits.  (lastGeoCheck is first read
\* in loop(): the time setup() took is drawn where loop() is entered.)
WifiPoll ==
    /\ gwPc = "wifi_poll"
    /\ ~wifiStatus /\ retries < WIFI_RETRIES
    /\ retries' = retries + 1
    /\ wifiStatus' \in BOOLEAN
    /\ UNCHANGED <<gwPc, wifiIdx, wifiLog, gwVars, ctrlVars, linkVars>>

\* setup_wifi(): the while loop is left; return if connected, else the next
\* network, and after the last one delay(10000) and ESP.restart().
WifiCheck ==
    /\ gwPc = "wifi_poll"
    /\ wifiStatus \/ retries >= WIFI_RETRIES
    /\ wifiLog' = Append(wifiLog, [idx |-> wifiIdx, polls |-> retries,
                                   connected |-> wifiStatus])
    /\ IF wifiStatus
       THEN gwPc' = "mqtt" /\ wifiIdx' = 0 /\ retries' = 0
       ELSE /\ wifiIdx' = wifiIdx + 1
            /\ retries' = 0
            /\ gwPc' = IF wifiIdx + 1 < WIFI_COUNT THEN "wifi_begin" ELSE "restart"
    /\ UNCHANGED <<wifiStatus, gwVars, ctrlVars, linkVars>>

\* ESP.restart(): the node boots again; only the EEPROM survives.  The bytes
\* received from the perception node and not yet read are lost with the
\* receive buffer.
WifiRestart ==
    /\ gwPc = "restart"
    /\ gwPc' = "boot"
    /\ wifiIdx' = 0 /\ retries' = 0 /\ wifiStatus' = FALSE /\ wifiLog' = <<>>
    /\ gwDoorOpen' = FALSE
    /\ garageLat' = 0 /\ garageLon' = 0
    /\ userLat' = 0 /\ userLon' = 0
    /\ userInside' = FALSE
    /\ geoElapsed' = 0
    /\ scen' = 0
    /\ session' = FALSE /\ idle' = 0 /\ beat' = 0 /\ pending' = ""
    /\ gwObs' = NoGwObs(eeprom)
    /\ c2g' = <<>>
    /\ UNCHANGED <<eeprom, ctrlVars, g2c>>

\* millis() - lastGeoCheck when loop() is first entered: setup() took that
\* long (lastGeoCheck is 0 until the first evaluation).
SetupTimes == {k * GwTickTime : k \in 0..GeoSteps}

\* reconnect_mqtt() in setup(): one attempt.  On success the topics are
\* subscribed, the garage position and a heartbeat are published and loop()
\* is entered; on failure delay(5000) and the next attempt.
ReconnectMqtt(connected) ==
    /\ gwPc = "mqtt"
    /\ IF connected
       THEN LET g == reconnect_mqtt(GwState)
            IN  /\ gwPc' = "loop"
                /\ session' = g.session
                /\ idle' = g.idle
                /\ gwObs' = [gwObs EXCEPT !.atEnd = g]
                /\ geoElapsed' \in {LaterGeo(geoElapsed, dt) : dt \in SetupTimes}
                /\ wifiLog' = <<>>
       ELSE UNCHANGED <<gwPc, session, idle, gwObs, geoElapsed, wifiLog>>
    /\ UNCHANGED <<wifiIdx, retries, wifiStatus, gwDoorOpen, garageLat,
                   garageLon, eeprom, userLat, userLon, userInside, scen,
                   beat, pending, ctrlVars, linkVars>>

\* The clock passes lastMqttActivity + MQTT_WATCHDOG_MS.  An iteration of
\* loop() is short against the window; the model keeps whether the window
\* has passed, and lets it pass between any two iterations.
WatchdogWindowEnds ==
    /\ gwPc = "loop"
    /\ idle <= MQTT_WATCHDOG_MS
    /\ idle' = MQTT_WATCHDOG_MS + 1
    /\ UNCHANGED <<gwPc, wifiIdx, retries, wifiStatus, wifiLog, gwDoorOpen,
                   garageLat, garageLon, eeprom, userLat, userLon, userInside,
                   geoElapsed, scen, session, beat, pending, gwObs, ctrlVars,
                   linkVars>>

\* The clock passes lastHeartbeat + HEARTBEAT_INTERVAL, likewise.
HeartbeatWindowEnds ==
    /\ gwPc = "loop"
    /\ beat <= HEARTBEAT_INTERVAL
    /\ beat' = HEARTBEAT_INTERVAL + 1
    /\ UNCHANGED <<gwPc, wifiIdx, retries, wifiStatus, wifiLog, gwDoorOpen,
                   garageLat, garageLon, eeprom, userLat, userLon, userInside,
                   geoElapsed, scen, session, idle, pending, gwObs, ctrlVars,
                   linkVars>>

\* The broker or the network drops the session.
SessionLost ==
    /\ gwPc = "loop"
    /\ session
    /\ session' = FALSE
    /\ UNCHANGED <<gwPc, wifiIdx, retries, wifiStatus, wifiLog, gwDoorOpen,
                   garageLat, garageLon, eeprom, userLat, userLon, userInside,
                   geoElapsed, scen, idle, beat, pending, gwObs, ctrlVars,
                   linkVars>>

\* A client on the LAN sends a request to the HTTP server.
HttpArrives(request) ==
    /\ pending = ""
    /\ request # ""
    /\ pending' = request
    /\ UNCHANGED <<gwPc, wifiIdx, retries, wifiStatus, wifiLog, gwDoorOpen,
                   garageLat, garageLon, eeprom, userLat, userLon, userInside,
                   geoElapsed, scen, session, idle, beat, gwObs, ctrlVars,
                   linkVars>>

LinkInit == g2c = <<>> /\ c2g = <<>>

Init == CtrlInit /\ GwInit /\ LinkInit

(***************************************************************************)
(* The perception node alone.  The far end of the link writes any byte, at *)
(* most one between two iterations here, and reads what the controller     *)
(* wrote.  The controller never reads c2g, so letting an    *)
(* iteration start only when the earlier status bytes were read removes    *)
(* none of its behaviours.                                                 *)
(***************************************************************************)
Arrivals == {<<>>} \cup {<<b>> : b \in LinkBytes}

CtrlTick ==
    /\ c2g = <<>>
    /\ \E arrived \in Arrivals, pirState \in PinLevels,
          buttonState \in PinLevels, echo \in Echoes :
            CtrlLoopOn(g2c \o arrived, pirState, buttonState, echo)

LinkRead ==
    /\ c2g # <<>>
    /\ c2g' = Tail(c2g)
    /\ UNCHANGED <<ctrlVars, wifiVars, gwVars, g2c>>

NextCtrl == CtrlTick \/ LinkRead

\* The connectivity node stays switched off, its EEPROM erased.
InitCtrl == CtrlInit /\ GwPowerOn(ErasedEeprom) /\ LinkInit

SpecCtrl == InitCtrl /\ [][NextCtrl]_vars

\* The perception node with a remote open as the only link traffic, and
\* the probe seeing something at 10 cm or nothing at all.
CloseTick ==
    /\ c2g = <<>>
    /\ \E arrived \in {<<>>, <<1>>}, pirState \in PinLevels,
          buttonState \in PinLevels, echo \in {580, NoEcho} :
            CtrlLoopOn(g2c \o arrived, pirState, buttonState, echo)

NextClose == CloseTick \/ LinkRead

SpecClose == InitCtrl /\ [][NextClose]_vars

\* loop() keeps running, and the far end keeps reading the status bytes.
SpecCloseFair == SpecClose /\ WF_vars(CloseTick) /\ WF_vars(LinkRead)

(***************************************************************************)
(* The connectivity node alone.  The far end of the link reads what the    *)
(* gateway wrote.  The gateway never reads g2c, so letting an iteration    *)
(* start only when the earlier bytes were read removes none of its         *)
(* behaviours.                                                             *)
(***************************************************************************)

LinkTake ==
    /\ g2c # <<>>
    /\ g2c' = Tail(g2c)
    /\ UNCHANGED <<ctrlVars, wifiVars, gwVars, c2g>>

\* setup_wifi() alone.
NextWifi == GwSetup \/ WifiBegin \/ WifiPoll \/ WifiCheck \/ WifiRestart

SpecWifi == Init /\ [][NextWifi]_vars

\* setup() runs on: a statement of setup_wifi() that can execute does.
SpecWifiFair == SpecWifi /\ WF_vars(WifiBegin \/ WifiPoll \/ WifiCheck)

\* Boot, then loop() receiving user positions.
GeoTick ==
    /\ g2c = <<>>
    /\ \E msg \in UserMsgs \cup {NoMsg} : GwLoopOn(c2g, msg, "", TRUE)

NextGeo ==
    \/ GwSetup \/ WifiBegin \/ WifiPoll \/ WifiCheck \/ WifiRestart
    \/ (\E connected \in BOOLEAN : ReconnectMqtt(connected))
    \/ GeoTick
    \/ LinkTake
    \/ WatchdogWindowEnds \/ HeartbeatWindowEnds

SpecGeo == Init /\ [][NextGeo]_vars

\* Boot, then loop() receiving location updates and payloads that are not
\* JSON.
LocTick ==
    /\ g2c = <<>>
    /\ \E msg \in UpdateMsgs \cup BadMsgs \cup {NoMsg} :
            GwLoopOn(c2g, msg, "", TRUE)

NextLoc ==
    \/ GwSetup \/ WifiBegin \/ WifiPoll \/ WifiCheck \/ WifiRestart
    \/ (\E connected \in BOOLEAN : ReconnectMqtt(connected))
    \/ LocTick
    \/ WatchdogWindowEnds \/ HeartbeatWindowEnds

SpecLoc == Init /\ [][NextLoc]_vars

\* The connectivity node with an erased EEPROM, the perception node idle.
InitGw == CtrlInit /\ GwPowerOn(ErasedEeprom) /\ LinkInit

\* setup() of the connectivity node, up to loop().
GwBoot ==
    \/ GwSetup \/ WifiBegin \/ WifiPoll \/ WifiCheck \/ WifiRestart
    \/ (\E connected \in BOOLEAN : ReconnectMqtt(connected))

\* Boot, then loop() receiving the report bytes of the controller, at most
\* one between two iterations, known or not.
RepTick ==
    \E arrived \in Arrivals : GwLoopOn(c2g \o arrived, NoMsg, "", TRUE)

NextRep == GwBoot \/ RepTick \/ WatchdogWindowEnds \/ HeartbeatWindowEnds

SpecRep == InitGw /\ [][NextRep]_vars

\* Boot, then loop() with the watchdog: payloads that are not JSON arrive
\* or nothing does, the window passes, the session drops, the broker accepts
\* a new connection or not.
DogTick(accept) ==
    \E msg \in BadMsgs \cup {NoMsg} : GwLoopOn(c2g, msg, "", accept)

NextDog ==
    \/ GwBoot
    \/ (\E accept \in BOOLEAN : DogTick(accept))
    \/ GwLoopResume(c2g, "")
    \/ ReconnectRetry
    \/ WatchdogWindowEnds \/ HeartbeatWindowEnds
    \/ SessionLost

SpecDog == InitGw /\ [][NextDog]_vars

\* reconnect_mqtt() called from loop() makes an attempt that the broker
\* accepts.
AcceptedInLoop == DogTick(TRUE) \/ GwLoopResume(c2g, "")

\* The node keeps running, and the broker accepts a connection in the end:
\* an attempt that is accepted is not put off for ever.  For loop() this is
\* weak fairness of AcceptedInLoop with its enabling condition, the node
\* being in reconnect_mqtt(), written out.
SpecDogFair ==
    /\ SpecDog
    /\ WF_vars(\/ GwSetup \/ WifiBegin \/ WifiPoll \/ WifiCheck \/ WifiRestart
               \/ ReconnectMqtt(TRUE))
    /\ \/ []<>(~(gwPc = "watchdog" \/ (gwPc = "loop" /\ ~session)))
       \/ []<><<AcceptedInLoop>>_vars

\* Boot, then loop() receiving broker commands and serving the HTTP
\* requests of LAN clients, the session dropping and the broker accepting a
\* new connection or not.
CmdTick(accept) ==
    /\ g2c = <<>>
    /\ \E msg \in CmdMsgs \cup {NoMsg} : GwLoopOn(c2g, msg, pending, accept)

NextCmd ==
    \/ GwBoot
    \/ (\E accept \in BOOLEAN : CmdTick(accept))
    \/ ReconnectRetry
    \/ SessionLost
    \/ (\E request \in HttpRequests : HttpArrives(request))
    \/ LinkTake

SpecCmd == InitGw /\ [][NextCmd]_vars

\* Boot, then loop() serving the HTTP requests of LAN clients, no broker
\* message arriving, the session dropping and the broker accepting a new
\* connection or not.
HttpTick(accept) ==
    /\ g2c = <<>>
    /\ GwLoopOn(c2g, NoMsg, pending, accept)

NextHttp ==
    \/ GwBoot
    \/ (\E accept \in BOOLEAN : HttpTick(accept))
    \/ ReconnectRetry
    \/ SessionLost
    \/ (\E request \in HttpRequests : HttpArrives(request))
    \/ LinkTake

SpecHttp == InitGw /\ [][NextHttp]_vars

\* The node runs on: every statement that does not need the broker to
\* accept a connection is executed when it can be; and the controller reads
\* the link.
SpecHttpFair ==
    /\ SpecHttp
    /\ WF_vars(GwSetup \/ WifiBegin \/ WifiPoll \/ WifiCheck
                \/ WifiRestart \/ ReconnectRetry \/ HttpTick(FALSE))
    /\ WF_vars(LinkTake)

(***************************************************************************)
(* The two nodes on the link.  Each runs its loop() whenever the bytes it   *)
(* wrote earlier leave room in the receive buffer of the other; the broker *)
(* delivers open and close commands; the probe sees something at 10 cm.    *)
(***************************************************************************)

\* Bytes a receive buffer holds when an iteration of the writer begins.
LinkDepth == 2

\* The open and close commands of the broker.
DoorCmds == {Msg(topic_cmd, TRUE, <<v>>, <<>>, <<>>) : v \in {0, 1}}

SysCtrlTick ==
    /\ gwPc = "loop"
    /\ Len(c2g) < LinkDepth
    /\ \E pirState \in PinLevels, buttonState \in PinLevels :
            CtrlLoop(pirState, buttonState, 580)

\* SysGwTick reading the newest byte first.
SysGwTick_Newest ==
    /\ Len(g2c) < LinkDepth
    /\ \E msg \in DoorCmds \cup {NoMsg} :
            GwLoopOn(IF c2g = <<>> THEN c2g
                     ELSE <<c2g[Len(c2g)]>> \o SubSeq(c2g, 1, Len(c2g) - 1),
                     msg, "", TRUE)

SysGwTick ==
    /\ Len(g2c) < LinkDepth
    /\ \E msg \in DoorCmds \cup {NoMsg} : GwLoopOn(c2g, msg, "", TRUE)

\* The user 12 m and 40 m from the default garage position.
NearFarMsgs ==
    {Msg(topic_user_location, TRUE, <<>>, <<DefaultGarageLat + d>>,
         <<DefaultGarageLon>>) : d \in {12, 40}}

\* loop() of the connectivity node with commands, user positions and
\* requests to open from the local network, once the perception node has
\* read what was written before.
DoorGwTick ==
    /\ g2c = <<>>
    /\ \E msg \in DoorCmds \cup NearFarMsgs \cup {NoMsg}, request \in {"", "/apri"} :
            GwLoopOn(c2g, msg, request, TRUE)

\* loop() of the perception node with an idle button.
DoorCtrlTick ==
    /\ gwPc = "loop"
    /\ Len(c2g) < LinkDepth
    /\ \E pirState \in PinLevels : CtrlLoop(pirState, "HIGH", 580)

NextDoor == GwBoot \/ DoorCtrlTick \/ DoorGwTick

SpecDoor == InitGw /\ [][NextDoor]_vars

\* A user-location message with both coordinates zero, and one without
\* coordinates.
ZeroMsgs == {Msg(topic_user_location, TRUE, <<>>, <<0>>, <<0>>),
             Msg(topic_user_location, TRUE, <<>>, <<>>, <<>>)}

\* loop() of the connectivity node with the user near, far and at (0, 0)
\* and with open commands, the perception node not reading: g2c keeps what
\* was written since boot.
FenceTick ==
    /\ Len(g2c) <= LinkDepth
    /\ \E msg \in NearFarMsgs \cup ZeroMsgs \cup {NoMsg, Msg(topic_cmd, TRUE, <<1>>, <<>>, <<>>)} :
            GwLoopOn(c2g, msg, "", TRUE)

NextFence == GwBoot \/ FenceTick

SpecFence == InitGw /\ [][NextFence]_vars

\* loop() of the perception node while the connectivity node boots or
\* runs: the button is pressed or not, nothing moves, the probe sees
\* something at 10 cm.
MirrorCtrlTick ==
    /\ Len(c2g) < LinkDepth
    /\ \E buttonState \in PinLevels : CtrlLoop("LOW", buttonState, 580)

\* loop() of the connectivity node, no broker message arriving.
MirrorGwTick == GwLoopOn(c2g, NoMsg, "", TRUE)

NextMirror == GwBoot \/ MirrorCtrlTick \/ MirrorGwTick

\* Both nodes powered on together.
SpecMirror == InitGw /\ [][NextMirror]_vars

\* loop() of the connectivity node with the session up; a command arrives
\* only when the perception node has room for its byte.
EndGwTick ==
    \E msg \in (IF Len(g2c) < LinkDepth THEN DoorCmds ELSE {}) \cup {NoMsg} :
        GwLoopOn(c2g, msg, "", TRUE)

\* loop() of the perception node with nothing moving, the button idle and
\* the probe seeing something at 10 cm.
EndCtrlTick ==
    /\ gwPc = "loop"
    /\ Len(c2g) < LinkDepth
    /\ CtrlLoop("LOW", "HIGH", 580)

NextEnd == GwBoot \/ EndCtrlTick \/ EndGwTick

SpecEnd == InitGw /\ [][NextEnd]_vars

\* Both loops keep running.  For the connectivity node this is weak fairness
\* of EndGwTick with its enabling condition written out: an iteration
\* changes the state whenever a status byte waits.
SpecEndFair ==
    /\ SpecEnd
    /\ WF_vars(EndCtrlTick)
    /\ ([]<>(c2g = <<>>) \/ []<><<EndGwTick>>_vars)

NextSys == GwBoot \/ SysCtrlTick \/ SysGwTick

SpecSys == InitGw /\ [][NextSys]_vars

(***************************************************************************)
(* Properties of the perception node, over the record of the last          *)
(* iteration of loop().                                                    *)
(***************************************************************************)
Acts == ctrlObs.atEnd.acts
Ran(sweep) == \E i \in 1..Len(Acts) : Acts[i] = sweep
MotionNotNear ==
    ctrlObs.ticked /\ ctrlObs.pirState = "HIGH" /\ ~ctrlObs.atStart.userNearHome
ObstacleAtTimeout ==
    /\ ctrlObs.ticked
    /\ ctrlObs.atStart.doorOpen
    /\ ctrlObs.atStart.elapsed > 45000
    /\ ctrlObs.pirState = "LOW"
    /\ ctrlObs.distance < 10

\* C1 as stated: in an iteration that reads the PIR high while userNearHome
\* is false, no openDoor() runs.  Violated: the button or a 0x01 byte opens
\* the door in such an iteration.
C1_NoOpenInMotionTick == MotionNotNear => ~Ran("open")

\* C1, amended: in an iteration that reads the PIR high while userNearHome
\* is false, the automatic-opening branch does nothing, and openDoor() runs
\* only if the button is pressed or the byte read is 0x01.
C1_AutoOpenGating ==
    MotionNotNear =>
        /\ ctrlObs.afterAuto = ctrlObs.atStart
        /\ Ran("open") => ctrlObs.buttonState = "LOW" \/ ctrlObs.cmd = 1

\* C1: motion alone, user not near, and the door stays closed.
C1_Witness ==
    /\ MotionNotNear
    /\ ~ctrlObs.atStart.doorOpen
    /\ ctrlObs.buttonState = "HIGH" /\ ctrlObs.cmd = NoByte
    /\ ~doorOpen /\ Acts = <<>>

C5_UnknownByteIgnored ==
    ctrlObs.ticked /\ ctrlObs.cmd # NoByte /\ ctrlObs.cmd \notin {0, 1, 2, 3} =>
        /\ ctrlObs.afterLink = ctrlObs.afterManual
        /\ ctrlObs.atEnd = ctrlObs.afterManual

\* C5: an unknown byte was read while the door was open and the user near.
C5_Witness ==
    /\ ctrlObs.ticked /\ ctrlObs.cmd = 255
    /\ ctrlObs.afterManual.doorOpen /\ ctrlObs.afterManual.userNearHome
    /\ doorOpen /\ userNearHome

\* C6: a 0x01 byte leaves the door open and a 0x00 byte leaves it closed,
\* whatever the state before, at the end of the handling and of the
\* iteration; each runs its sweep once more and writes its status byte.
C6_RemoteIdempotent ==
    LET before == ctrlObs.afterManual
        after == ctrlObs.afterLink
    IN  /\ ctrlObs.ticked /\ ctrlObs.cmd = 1 =>
            /\ after.doorOpen /\ ctrlObs.atEnd.doorOpen /\ doorOpen
            /\ after.acts = Append(before.acts, "open")
            /\ after.out = Append(before.out, 1)
        /\ ctrlObs.ticked /\ ctrlObs.cmd = 0 =>
            /\ ~after.doorOpen /\ ~ctrlObs.atEnd.doorOpen /\ ~doorOpen
            /\ after.acts = Append(before.acts, "close")
            /\ after.out = Append(before.out, 0)

\* C6: the second of two consecutive 0x01 bytes, handled with the door open.
C6_Witness ==
    /\ ctrlObs.ticked /\ ctrlObs.cmd = 1 /\ ctrlObs.afterOpenCmd
    /\ ctrlObs.afterManual.doorOpen
    /\ doorOpen

\* C9: a button read LOW in two consecutive iterations toggles the door in
\* the first only.  Violated: loop() tests the level, so every iteration that
\* reads LOW toggles.
C9_HeldButtonTogglesOnce ==
    ctrlObs.ticked /\ ctrlObs.held /\ ctrlObs.buttonState = "LOW" =>
        ctrlObs.afterManual = ctrlObs.afterAuto

\* C10: a probe that times out reads as 400 cm, and the timer check then
\* closes the door.  Violated: pulseIn() returns 0 on timeout, the reading is
\* 0 cm and the door is re-opened as for an obstacle.
C10_TimeoutReadsMaxRange ==
    /\ ctrlObs.ticked /\ ctrlObs.echo = NoEcho
    /\ ctrlObs.atStart.doorOpen /\ ctrlObs.atStart.elapsed > 45000
    /\ ctrlObs.pirState = "LOW" /\ ctrlObs.buttonState = "HIGH"
    /\ ctrlObs.cmd = NoByte
    => ctrlObs.distance = 400 /\ Acts = <<"close">> /\ ~doorOpen

(***************************************************************************)
(* Properties of the connectivity node.                                    *)
(***************************************************************************)
Evals == gwObs.atEnd.evals

\* C3: userInside goes from true to false only in an evaluation whose
\* distance exceeds 15 + 20 m, and from false to true only in an evaluation
\* whose distance is at most 15 m; so once inside, the state stays inside
\* until an evaluated distance exceeds 35 m.
C3_Hysteresis ==
    [][/\ userInside /\ ~userInside' =>
            gwObs'.atEnd.evals # <<>> /\ gwObs'.atEnd.evals[1] > 15 + 20
       /\ ~userInside /\ userInside' =>
            gwObs'.atEnd.evals # <<>> /\ gwObs'.atEnd.evals[1] <= 15]_vars

\* C3: an evaluation at 35 m, inside before and inside after.
C3_Witness ==
    /\ gwObs.looped /\ Evals = <<35>>
    /\ gwObs.atStart.userInside /\ userInside

\* The states and the bytes the scenario of C4 expects after each sample.
ScenarioInside == <<FALSE, FALSE, TRUE, TRUE, FALSE>>
ScenarioBytes == <<<<>>, <<>>, <<2>>, <<>>, <<3>>>>

\* C4: an iteration of loop() writes 0x02 exactly when userInside goes from
\* false to true, 0x03 exactly when it goes from true to false, and no
\* geofence byte otherwise; and the evaluated distances 30, 18, 12, 22, 40
\* after boot give outside, outside, inside, inside, outside, with a byte at
\* the third and the fifth only.
C4_EdgeTriggered ==
    gwObs.looped =>
        LET before == gwObs.afterSerial.userInside
            after == gwObs.afterGeo.userInside
        IN  /\ gwObs.geoTx = (IF ~before /\ after THEN <<2>>
                              ELSE IF before /\ ~after THEN <<3>> ELSE <<>>)
            /\ SelectSeq(gwObs.atEnd.tx, LAMBDA b : b \in {2, 3}) = gwObs.geoTx
            /\ userInside = after
            /\ Evals # <<>> /\ scen \in 1..5 =>
                    /\ userInside = ScenarioInside[scen]
                    /\ gwObs.geoTx = ScenarioBytes[scen]

\* C4: the fifth sample of the scenario: 40 m, exit, 0x03.
C4_Witness ==
    /\ gwObs.looped /\ scen = 5 /\ Evals = <<40>>
    /\ gwObs.geoTx = <<3>> /\ ~userInside

\* C7: an update_location message whose latitude and longitude are both
\* zero (or absent) leaves garageLat, garageLon and the EEPROM as they were,
\* calls saveGarageLocation() never and publishes no garage-location message.
C7_ZeroUpdateRejected ==
    /\ gwObs.looped /\ gwObs.msg.json
    /\ gwObs.msg.topic = topic_update_location
    /\ Or(gwObs.msg.lat, 0) = 0 /\ Or(gwObs.msg.lon, 0) = 0
    => /\ gwObs.afterCallback = [gwObs.atStart EXCEPT !.idle = 0]
       /\ garageLat = gwObs.atStart.garageLat
       /\ garageLon = gwObs.atStart.garageLon
       /\ eeprom = gwObs.atStart.eeprom
       /\ gwObs.atEnd.saves = 0
       /\ \A i \in 1..Len(gwObs.atEnd.pub) : gwObs.atEnd.pub[i].topic # topic_gps

\* C7: a (0, 0) update arrived after an accepted one, which is kept.
C7_Witness ==
    /\ gwObs.looped
    /\ gwObs.msg = Msg(topic_update_location, TRUE, <<>>, <<0>>, <<0>>)
    /\ garageLat = DefaultGarageLat + 100
    /\ eeprom = [lat |-> DefaultGarageLat + 100, lon |-> DefaultGarageLon,
                 valid |-> 1]

\* setup_wifi() has returned or has reached ESP.restart().
WifiDone == gwPc \in {"mqtt", "restart"}
AllFailed ==
    /\ Len(wifiLog) = 2
    /\ \A k \in 1..Len(wifiLog) : ~wifiLog[k].connected /\ wifiLog[k].polls = 20

\* C8: the networks are tried in list order; each is polled at most 20
\* times; every network before the last one tried failed after 20 polls;
\* setup_wifi() returns exactly when the last one tried is connected, and
\* restarts exactly when both networks failed after 20 polls each; and
\* setup_wifi(), once entered, ends.
C8_SetupWifi ==
    /\ [](/\ retries <= 20
          /\ Len(wifiLog) <= 2
          /\ \A k \in 1..Len(wifiLog) :
                /\ wifiLog[k].idx = k - 1
                /\ wifiLog[k].polls <= 20
                /\ k < Len(wifiLog) =>
                        ~wifiLog[k].connected /\ wifiLog[k].polls = 20
          /\ gwPc \in {"wifi_begin", "wifi_poll"} => wifiIdx = Len(wifiLog)
          /\ gwPc = "mqtt" <=>
                Len(wifiLog) >= 1 /\ wifiLog[Len(wifiLog)].connected
          /\ gwPc = "restart" <=> AllFailed)
    /\ (gwPc = "wifi_begin" ~> WifiDone)

\* C8: both networks failed after 20 polls each and the node restarts.
C8_Witness == gwPc = "restart" /\ AllFailed /\ ~wifiStatus

\* What loop() did with the report byte it read.
ReportRead == gwObs.looped /\ gwObs.state # NoByte
DoorMessages(g) == SelectSeq(g.pub, LAMBDA m : m.topic = topic_door)

\* C11: a report byte that leaves the reported door state as it was
\* publishes no door-state message.  Violated: loop() publishes one for
\* every report byte it reads.
C11_DoorEventOnChangeOnly ==
    ReportRead /\ gwObs.afterSerial.doorOpen = gwObs.afterBeat.doorOpen
    => DoorMessages(gwObs.afterSerial) = DoorMessages(gwObs.afterBeat)

\* C15: a report byte other than 0x00 and 0x01 leaves the door-state mirror
\* as it was and publishes no door-state message.  Violated: loop() sets
\* doorOpen = (state == 0x01) for any byte and publishes it.
C15_UnknownReportDiscarded ==
    ReportRead /\ gwObs.state \notin {0, 1}
    => /\ gwObs.afterSerial.doorOpen = gwObs.afterBeat.doorOpen
       /\ gwDoorOpen = gwObs.atStart.doorOpen
       /\ DoorMessages(gwObs.afterSerial) = DoorMessages(gwObs.afterBeat)

\* C12: a local open or close request waiting at the HTTP server of a node
\* that is in loop() is eventually handled, whatever the broker does.
\* Violated: without a session loop() stays in reconnect_mqtt() until the
\* broker accepts, and server.handleClient() is not reached.
C12_LocalRequestServed ==
    (gwPc = "loop" /\ pending \in {"/apri", "/chiudi"}) ~> (pending = "")

\* The link byte of a command value, of an endpoint.
CommandBytes(value) ==
    IF value = 1 THEN <<1>> ELSE IF value = 0 THEN <<0>> ELSE <<>>
EndpointBytes(request) ==
    IF request = "/apri" THEN <<1>>
    ELSE IF request = "/chiudi" THEN <<0>> ELSE <<>>

\* C16: a broker command writes 0x01 for value 1, 0x00 for value 0 and
\* nothing for a value that is missing or another one; the open and close
\* endpoints write 0x01 and 0x00 and answer 200; the iteration writes these
\* bytes and no others, whether or not a report byte was there to read.
C16_CommandTranslation ==
    gwObs.looped /\ gwObs.msg.topic \in {topic_cmd, ""} =>
        LET value == IF gwObs.msg.topic = topic_cmd
                     THEN Or(gwObs.msg.value, -1) ELSE -1
        IN  /\ gwObs.afterCallback.tx =
                    gwObs.afterConnect.tx \o CommandBytes(value)
            /\ gwObs.atEnd.tx = gwObs.afterGeo.tx \o EndpointBytes(gwObs.request)
            /\ gwObs.atEnd.tx = CommandBytes(value) \o EndpointBytes(gwObs.request)
            /\ gwObs.request \in {"/apri", "/chiudi"} =>
                    gwObs.atEnd.resp = <<[code |-> 200, door |-> -1]>>

\* C16: an open command and a close request in one iteration, no report
\* byte read: 0x01 then 0x00 written.
C16_Witness ==
    /\ gwObs.looped /\ gwObs.state = NoByte
    /\ gwObs.msg = Msg(topic_cmd, TRUE, <<1>>, <<>>, <<>>)
    /\ gwObs.request = "/chiudi"
    /\ gwObs.atEnd.tx = <<1, 0>>
    /\ g2c = <<1, 0>>

\* C13: the watchdog fires in exactly the iterations that start with a
\* session and with more than MQTT_WATCHDOG_MS since the last inbound
\* message or connect, and in which no message arrives; when it fires the
\* session is torn down, the timer restarts and reconnect_mqtt() runs, and
\* the iteration goes on with a new session once the broker accepts; an
\* iteration that receives a message, or in which the watchdog is not due,
\* leaves the session as it is.
C13_Watchdog ==
    /\ gwObs.looped \/ gwPc = "watchdog" =>
            (gwObs.fired <=> /\ gwObs.msg = NoMsg
                             /\ gwObs.atStart.session
                             /\ gwObs.atStart.idle > MQTT_WATCHDOG_MS)
    /\ gwObs.looped /\ gwObs.fired =>
            /\ gwObs.afterDog.session /\ gwObs.afterDog.idle = 0
            /\ gwObs.afterDog.subs = Subscriptions
            /\ gwObs.atEnd.session /\ gwObs.atEnd.idle = 0
    /\ gwPc = "watchdog" => gwObs.fired /\ ~session /\ idle = 0
    /\ gwObs.looped /\ ~gwObs.fired => gwObs.afterDog = gwObs.afterCallback
    /\ gwObs.looped /\ gwObs.msg # NoMsg =>
            ~gwObs.fired /\ gwObs.atEnd.idle = 0

\* C13: the watchdog fired and the session was made anew in the iteration.
C13_Witness ==
    /\ gwObs.looped /\ gwObs.fired
    /\ gwObs.atStart.session /\ gwObs.atStart.idle > MQTT_WATCHDOG_MS
    /\ gwObs.afterDog.pub # <<>>
    /\ session /\ idle = 0

\* The record saveGarageLocation() leaves for the default position.
DefaultRecord == [lat |-> DefaultGarageLat, lon |-> DefaultGarageLon, valid |-> 1]

\* C14: loadGarageLocation() succeeds exactly when the validity marker is 1,
\* then handing out the stored latitude and longitude, and otherwise fails
\* leaving its arguments as they were; setup() on a store without a valid
\* record adopts the default position and saves it, on a valid one adopts
\* the stored position and leaves the store alone; once setup() has run
\* the store holds a valid record.
C14_LoadAndBootDefaults ==
    LET l == loadGarageLocation(GwState)
        boot == gwObs.atStart.eeprom
    IN  /\ eeprom.valid = 1 =>
                /\ l.ok
                /\ l.g = [GwState EXCEPT !.garageLat = eeprom.lat,
                                         !.garageLon = eeprom.lon]
        /\ eeprom.valid # 1 => ~l.ok /\ l.g = GwState
        /\ gwPc # "boot" => eeprom.valid = 1
        /\ ~gwObs.looped /\ gwPc \notin {"boot", "watchdog"} =>
                IF boot.valid = 1
                THEN /\ eeprom = boot
                     /\ garageLat = boot.lat /\ garageLon = boot.lon
                ELSE /\ eeprom = DefaultRecord
                     /\ garageLat = DefaultGarageLat
                     /\ garageLon = DefaultGarageLon

\* setup() has just run on an erased store.
C14_Witness ==
    /\ gwPc = "wifi_begin" /\ wifiIdx = 0 /\ ~gwObs.looped
    /\ gwObs.atStart.eeprom.valid # 1
    /\ eeprom = DefaultRecord
    /\ garageLat = DefaultGarageLat /\ garageLon = DefaultGarageLon

\* The last iteration of the perception node saw no motion, no button press
\* and no link byte, and nothing stood within 10 cm of the probe: the echo
\* came from 10 cm or more, or no echo came back at all.
Quiet ==
    /\ ctrlObs.ticked
    /\ ctrlObs.pirState = "LOW" /\ ctrlObs.buttonState = "HIGH"
    /\ ctrlObs.cmd = NoByte
    /\ ctrlObs.echo = NoEcho \/ ctrlObs.echo >= 580

\* Quiet, and an echo came back.
QuietEcho == Quiet /\ ctrlObs.echo # NoEcho

\* C17: if from some point on every iteration sees no motion, no obstacle
\* within 10 cm, no button press and no link byte, the door ends up closed
\* and stays closed.  Violated: with nothing in range of the probe pulseIn()
\* times out, the reading is 0 cm and the timer check re-opens the door
\* every time the auto-close time has elapsed.
C17_AutoCloseLiveness == <>[]Quiet => <>[](~doorOpen)

\* The same with an echo from 10 cm or more in every iteration: holds.
AutoCloseWithEcho == <>[]QuietEcho => <>[](~doorOpen)

\* C19: handling the link byte 0x02 sets userNearHome to true and handling
\* 0x03 sets it to false, and neither does anything else: no sweep, no
\* status byte, doorOpen and the auto-close timer as they were; no other
\* step of loop() and no other link byte changes userNearHome.
C19_GeofenceByteOnlySetsProximity ==
    ctrlObs.ticked =>
        /\ ctrlObs.cmd = 2 =>
                ctrlObs.afterLink = [ctrlObs.afterManual EXCEPT !.userNearHome = TRUE]
        /\ ctrlObs.cmd = 3 =>
                ctrlObs.afterLink = [ctrlObs.afterManual EXCEPT !.userNearHome = FALSE]
        /\ ctrlObs.cmd \notin {2, 3} =>
                ctrlObs.afterLink.userNearHome = ctrlObs.afterManual.userNearHome
        /\ ctrlObs.afterAuto.userNearHome = ctrlObs.atStart.userNearHome
        /\ ctrlObs.afterManual.userNearHome = ctrlObs.afterAuto.userNearHome
        /\ ctrlObs.atEnd.userNearHome = ctrlObs.afterLink.userNearHome
        /\ userNearHome = ctrlObs.atEnd.userNearHome

\* 0x03 read with the door open and the user near: the door stays open, no
\* sweep ran in the iteration, userNearHome is false.
C19_Witness ==
    /\ ctrlObs.ticked /\ ctrlObs.cmd = 3
    /\ ctrlObs.afterManual.userNearHome /\ ctrlObs.afterManual.doorOpen
    /\ ctrlObs.atEnd.acts = <<>> /\ ctrlObs.atEnd.out = <<>>
    /\ doorOpen /\ ~userNearHome

\* Between two points of an iteration millis() - tic went to 0 if the last
\* sweep there was openDoor(), and stayed as it was otherwise.
TimerArmedByOpen(x, y) ==
    IF Len(y.acts) > Len(x.acts) /\ y.acts[Len(y.acts)] = "open"
    THEN y.elapsed = 0
    ELSE y.elapsed = x.elapsed

\* C23: every openDoor(), whichever step of loop() calls it, restarts the
\* auto-close timer when it completes, and closeDoor() leaves the door
\* closed, which switches the timer check off: the check acts only on an
\* open door whose last openDoor() completed more than AUTO_CLOSE_TIME ago,
\* and time only adds to the timer between iterations.
C23_TimerArming ==
    ctrlObs.ticked =>
        /\ TimerArmedByOpen(ctrlObs.atStart, ctrlObs.afterAuto)
        /\ TimerArmedByOpen(ctrlObs.afterAuto, ctrlObs.afterManual)
        /\ TimerArmedByOpen(ctrlObs.afterManual, ctrlObs.afterLink)
        /\ TimerArmedByOpen(ctrlObs.afterLink, ctrlObs.atEnd)
        /\ ctrlObs.atEnd # ctrlObs.afterLink =>
                /\ ctrlObs.afterLink.doorOpen
                /\ ctrlObs.afterLink.elapsed > AUTO_CLOSE_TIME
                /\ Len(ctrlObs.atEnd.acts) = Len(ctrlObs.afterLink.acts) + 1
        /\ ~ctrlObs.afterLink.doorOpen => ctrlObs.atEnd = ctrlObs.afterLink
        /\ elapsed = Later(ctrlObs.atEnd.elapsed)
        /\ ~doorOpen => ctrlObs.atEnd.acts = <<>>
                            \/ ctrlObs.atEnd.acts[Len(ctrlObs.atEnd.acts)] = "close"

\* The timer had elapsed on an open door with an obstacle: the safety
\* re-open restarted it.
C23_Witness ==
    /\ ctrlObs.ticked
    /\ ctrlObs.afterLink.doorOpen /\ ctrlObs.afterLink.elapsed > AUTO_CLOSE_TIME
    /\ ctrlObs.afterLink.acts = <<>>
    /\ ctrlObs.atEnd.acts = <<"open">> /\ ctrlObs.atEnd.elapsed = 0
    /\ doorOpen /\ elapsed <= AUTO_CLOSE_TIME

\* The sweeps run between two points of an iteration.
Sweeps(x, y) == Len(y.acts) - Len(x.acts)

\* C25 as stated: an iteration of loop() runs at most one sweep.  Violated:
\* the automatic opening, the button and the link command each run their
\* own sweep in the same iteration.
C25_AtMostOneSweep == ctrlObs.ticked => Len(ctrlObs.atEnd.acts) <= 1

\* C25: each of the four steps of loop() runs at most one sweep, and the
\* timer check runs none in an iteration in which an earlier step ran one;
\* an iteration runs at most three sweeps.
C25_SweepsPerIteration ==
    ctrlObs.ticked =>
        /\ Sweeps(ctrlObs.atStart, ctrlObs.afterAuto) \in {0, 1}
        /\ Sweeps(ctrlObs.afterAuto, ctrlObs.afterManual) \in {0, 1}
        /\ Sweeps(ctrlObs.afterManual, ctrlObs.afterLink) \in {0, 1}
        /\ Sweeps(ctrlObs.afterLink, ctrlObs.atEnd) \in {0, 1}
        /\ ctrlObs.afterLink.acts # <<>> => ctrlObs.atEnd = ctrlObs.afterLink
        /\ Len(ctrlObs.atEnd.acts) <= 3
        /\ ctrlObs.atStart.acts = <<>>

\* Motion with the user near opens the door, the pressed button closes it
\* and the link command opens it again, all in one iteration.
C25_Witness ==
    /\ ctrlObs.ticked
    /\ ctrlObs.pirState = "HIGH" /\ ctrlObs.buttonState = "LOW" /\ ctrlObs.cmd = 1
    /\ ctrlObs.atEnd.acts = <<"open", "close", "open">>
    /\ ctrlObs.atEnd.out = <<1, 0, 1>>

\* C26: an iteration that reads a link byte outside 0..3 ends as the same
\* iteration would with nothing to read: the timer check takes its decision
\* on the state the button step left.  Violated: loop() returns on such a
\* byte, before the timer check, so an open door whose timer has elapsed is
\* neither closed nor re-opened in that iteration.
C26_UnknownByteKeepsDecision ==
    ctrlObs.ticked /\ ctrlObs.cmd # NoByte /\ ctrlObs.cmd > 3 =>
        ctrlObs.atEnd =
            AutoCloseStep(ctrlObs.afterManual, ctrlObs.pirState, ctrlObs.distance)

(***************************************************************************)
(* Properties of the two nodes on the link.                                *)
(***************************************************************************)

\* q, then more bytes behind it.
Extends(q, r) == Len(r) > Len(q) /\ SubSeq(r, 1, Len(q)) = q

\* An iteration of the perception node handles the oldest byte waiting, if
\* any, and no other; what it writes goes behind what the other node has not
\* read yet.
CtrlReadsOldest ==
    /\ ctrlVars' # ctrlVars =>
            /\ IF g2c = <<>>
               THEN ctrlObs'.cmd = NoByte /\ g2c' = g2c
               ELSE ctrlObs'.cmd = Head(g2c) /\ g2c' = Tail(g2c)
            /\ c2g' = c2g \o ctrlObs'.atEnd.out
    /\ g2c' # g2c =>
            \/ g2c # <<>> /\ g2c' = Tail(g2c) /\ ctrlObs'.cmd = Head(g2c)
            \/ Extends(g2c, g2c') /\ UNCHANGED ctrlVars

\* The same for the connectivity node.
GwReadsOldest ==
    /\ gwPc = "loop" /\ gwObs' # gwObs =>
            /\ IF c2g = <<>>
               THEN gwObs'.state = NoByte /\ c2g' = c2g
               ELSE gwObs'.state = Head(c2g) /\ c2g' = Tail(c2g)
            /\ g2c' = g2c \o gwObs'.atEnd.tx
    /\ c2g' # c2g =>
            \/ c2g # <<>> /\ c2g' = Tail(c2g) /\ gwObs'.state = Head(c2g)
            \/ Extends(c2g, c2g') /\ UNCHANGED gwVars

\* C18: each node reads at most one byte from the link per iteration of
\* loop(), and always the oldest one waiting; bytes are only ever added
\* behind the ones waiting, so none is handled before one that arrived
\* earlier, and a byte that arrives while a sweep runs waits for the read
\* that follows the sweep.
C18_LinkOrder == [][CtrlReadsOldest /\ GwReadsOldest]_vars

\* Each node has just read one byte and left another one waiting; the
\* perception node ran a sweep in that iteration.
C18_Witness ==
    /\ ctrlObs.ticked /\ ctrlObs.cmd # NoByte /\ g2c # <<>>
    /\ ctrlObs.atEnd.acts # <<>>
    /\ gwObs.looped /\ gwObs.state # NoByte /\ c2g # <<>>

\* Between two points of an iteration of the perception node doorOpen
\* changed only if a sweep completed, and then to what the last sweep sets.
WrittenBySweep(x, y) ==
    IF Len(y.acts) = Len(x.acts)
    THEN y.doorOpen = x.doorOpen
    ELSE y.doorOpen = (y.acts[Len(y.acts)] = "open")

\* C20: doorOpen of the perception node changes only when openDoor() or
\* closeDoor() completes; the copy the connectivity node keeps changes only
\* in the step of loop() that reads a byte from the perception node, and is
\* left as it was by a broker command, by the watchdog and the heartbeat,
\* by the geofence evaluation and by a request from the local network.
C20_DoorStateSingleWriter ==
    /\ ctrlObs.ticked =>
            /\ WrittenBySweep(ctrlObs.atStart, ctrlObs.afterAuto)
            /\ WrittenBySweep(ctrlObs.afterAuto, ctrlObs.afterManual)
            /\ WrittenBySweep(ctrlObs.afterManual, ctrlObs.afterLink)
            /\ WrittenBySweep(ctrlObs.afterLink, ctrlObs.atEnd)
            /\ doorOpen = ctrlObs.atEnd.doorOpen
    /\ gwObs.looped =>
            /\ gwObs.afterConnect.doorOpen = gwObs.atStart.doorOpen
            /\ gwObs.afterCallback.doorOpen = gwObs.atStart.doorOpen
            /\ gwObs.afterDog.doorOpen = gwObs.atStart.doorOpen
            /\ gwObs.afterBeat.doorOpen = gwObs.atStart.doorOpen
            /\ gwObs.state = NoByte =>
                    gwObs.afterSerial.doorOpen = gwObs.afterBeat.doorOpen
            /\ gwObs.afterGeo.doorOpen = gwObs.afterSerial.doorOpen
            /\ gwObs.atEnd.doorOpen = gwObs.afterSerial.doorOpen
            /\ gwDoorOpen = gwObs.atEnd.doorOpen
    /\ ~gwObs.looped => ~gwDoorOpen

\* One iteration of the connectivity node got a close command, evaluated
\* the geofence, served /apri and read the report of an open door: its copy
\* went from closed to open.  The perception node's last sweep changed
\* doorOpen.
C20_Witness ==
    /\ gwObs.looped
    /\ gwObs.msg.topic = topic_cmd /\ gwObs.msg.value = <<0>>
    /\ gwObs.request = "/apri" /\ gwObs.geoTx # <<>>
    /\ gwObs.state = 1
    /\ ~gwObs.atStart.doorOpen /\ gwDoorOpen
    /\ ctrlObs.ticked /\ ctrlObs.atEnd.acts # <<>>
    /\ ctrlObs.atStart.doorOpen # ctrlObs.atEnd.doorOpen

(***************************************************************************)
(* Further properties of the connectivity node.                            *)
(***************************************************************************)

\* The EEPROM holds g's garage position, marked valid.
Persisted(g) ==
    g.eeprom = [lat |-> g.garageLat, lon |-> g.garageLon, valid |-> 1]

\* The last iteration delivered an update_location message that is not
\* (0, 0).
UpdateAccepted ==
    /\ gwObs.looped /\ gwObs.msg.json
    /\ gwObs.msg.topic = topic_update_location
    /\ ~(Or(gwObs.msg.lat, 0) = 0 /\ Or(gwObs.msg.lon, 0) = 0)

\* C21: an accepted update_location message makes its coordinates the
\* garage position, saves them with the validity marker 1 (one call of
\* saveGarageLocation()) and then publishes them, the new values, on the
\* garage-location topic; once setup() has loaded or defaulted the position,
\* the EEPROM record is valid and equal to garageLat, garageLon whenever no
\* handler is running.
C21_UpdatePersistedAndRepublished ==
    /\ UpdateAccepted =>
            LET newLat == Or(gwObs.msg.lat, 0)
                newLon == Or(gwObs.msg.lon, 0)
                before == gwObs.afterConnect
            IN  gwObs.afterCallback =
                    [before EXCEPT
                        !.idle = 0,
                        !.garageLat = newLat, !.garageLon = newLon,
                        !.eeprom = [lat |-> newLat, lon |-> newLon, valid |-> 1],
                        !.saves = @ + 1,
                        !.pub = Append(@, [topic |-> topic_gps,
                                           lat |-> newLat, lon |-> newLon])]
    /\ gwPc # "boot" => Persisted(GwState)
    /\ gwObs.looped =>
            /\ Persisted(gwObs.atStart) /\ Persisted(gwObs.afterCallback)
            /\ Persisted(gwObs.atEnd)

\* An update with a latitude and no longitude was accepted over the default
\* position.
C21_Witness ==
    /\ UpdateAccepted
    /\ gwObs.msg.lat = <<DefaultGarageLat + 100>> /\ gwObs.msg.lon = <<>>
    /\ gwObs.atStart.garageLat = DefaultGarageLat
    /\ garageLat = DefaultGarageLat + 100 /\ garageLon = 0
    /\ Persisted(GwState)

\* What a successful connect in reconnect_mqtt() publishes, from g.
ConnectPublications(g) ==
    publishStatus(publishGarageLocation([g EXCEPT !.session = TRUE, !.pub = <<>>])).pub

\* g after reconnect_mqtt() had to connect.
Connected(g) ==
    [g EXCEPT !.session = TRUE, !.subs = Subscriptions, !.idle = 0,
              !.pub = @ \o ConnectPublications(g)]

\* The node is inside reconnect_mqtt(), or about to call it.
Reconnecting ==
    \/ gwPc \in {"mqtt", "watchdog"}
    \/ gwPc = "loop" /\ ~session

ReconnectSafe ==
    /\ gwPc \in {"mqtt", "watchdog"} => ~session
    /\ gwPc = "loop" /\ ~gwObs.looped =>
            /\ gwObs.atEnd.session /\ gwObs.atEnd.idle = 0
            /\ gwObs.atEnd.subs = Subscriptions
            /\ gwObs.atEnd.pub = ConnectPublications(GwState)
    /\ gwObs.looped =>
            /\ gwObs.afterConnect.session /\ gwObs.afterDog.session
            /\ gwObs.atEnd.session
            /\ gwObs.afterConnect = IF gwObs.atStart.session THEN gwObs.atStart
                                    ELSE Connected(gwObs.atStart)
            /\ gwObs.fired =>
                    [gwObs.afterDog EXCEPT !.geoElapsed = 0] =
                        Connected([gwObs.afterCallback EXCEPT
                                        !.session = FALSE, !.geoElapsed = 0])

\* A node that got as far as reconnect_mqtt() is not restarted.
StaysUp ==
    gwPc \in {"mqtt", "watchdog", "loop"} => gwPc' \in {"mqtt", "watchdog", "loop"}

\* C22: reconnect_mqtt() never restarts the node and returns only with a
\* session; each successful connect subscribes the three topics, publishes
\* the garage position and a heartbeat and restarts the watchdog, and does
\* nothing else; a node that has to connect gets its session once the
\* broker accepts an attempt.
C22_Reconnect ==
    /\ []ReconnectSafe
    /\ [][StaysUp]_vars
    /\ (Reconnecting ~> (gwPc = "loop" /\ session))

\* The session was down at the top of loop() and reconnect_mqtt()
\* connected: two publications, three subscriptions.
C22_Witness ==
    /\ gwObs.looped /\ ~gwObs.atStart.session /\ gwObs.afterConnect.session
    /\ Len(gwObs.afterConnect.pub) = 2
    /\ gwObs.afterConnect.pub[1].topic = topic_gps
    /\ gwObs.afterConnect.pub[2].topic = topic_status
    /\ gwObs.afterConnect.subs = Subscriptions

\* The geofence bytes among the bytes q.
GeofenceBytes(q) == SelectSeq(q, LAMBDA b : b \in {2, 3})

\* 0x02, 0x03, 0x02, ...
Alternates(q) ==
    \A k \in 1..Len(q) : q[k] = IF k % 2 = 1 THEN 2 ELSE 3

\* C27: the geofence bytes written since boot are 0x02, 0x03, 0x02, ... in
\* turn, whatever else is written between them; userInside tells which one
\* was written last; an iteration writes at most one, and only when
\* GEO_INTERVAL has passed since the evaluation before, which restarts the
\* interval.
C27_GeofenceBytesAlternate ==
    /\ Alternates(GeofenceBytes(g2c))
    /\ userInside <=> Len(GeofenceBytes(g2c)) % 2 = 1
    /\ gwObs.looped =>
            /\ gwObs.geoTx \in {<<>>, <<2>>, <<3>>}
            /\ GeofenceBytes(gwObs.atEnd.tx) = gwObs.geoTx
            /\ gwObs.geoTx # <<>> =>
                    /\ gwObs.afterSerial.geoElapsed >= GEO_INTERVAL
                    /\ gwObs.afterGeo.geoElapsed = 0
                    /\ geoElapsed < GEO_INTERVAL

\* Enter, exit and enter again were written, an open command between them.
C27_Witness ==
    /\ GeofenceBytes(g2c) = <<2, 3, 2>>
    /\ Len(g2c) > 3
    /\ gwObs.looped /\ gwObs.geoTx = <<2>> /\ userInside

\* The user position stored when updateGeofence() ran was (0, 0).
NoUserPosition ==
    gwObs.looped /\ gwObs.afterSerial.userLat = 0 /\ gwObs.afterSerial.userLon = 0

\* C30: a user-location message with both coordinates zero or absent
\* stores (0, 0); with (0, 0) stored updateGeofence() computes no distance,
\* leaves userInside as it is and writes nothing to the link (it only
\* restarts its interval), so a user who was inside stays inside.
C30_ZeroPositionNotEvaluated ==
    /\ gwObs.looped /\ gwObs.msg \in ZeroMsgs =>
            gwObs.afterCallback =
                [gwObs.afterConnect EXCEPT !.idle = 0, !.userLat = 0, !.userLon = 0]
    /\ NoUserPosition =>
            /\ gwObs.afterGeo =
                    [gwObs.afterSerial EXCEPT
                        !.geoElapsed = IF @ < GEO_INTERVAL THEN @ ELSE 0]
            /\ gwObs.geoTx = <<>>
            /\ gwObs.atEnd.userInside = gwObs.atStart.userInside
            /\ gwObs.atEnd.evals = <<>>

\* The user was inside, (0, 0) arrived, and an evaluation fell due: still
\* inside, nothing written.
C30_Witness ==
    /\ NoUserPosition
    /\ gwObs.atStart.userInside /\ gwObs.atStart.userLat # 0
    /\ gwObs.msg \in ZeroMsgs
    /\ gwObs.afterSerial.geoElapsed >= GEO_INTERVAL
    /\ gwObs.atEnd.tx = <<>> /\ gwObs.atEnd.userInside

(***************************************************************************)
(* Agreement of the two nodes.                                             *)
(***************************************************************************)

\* C28: the two nodes having started together, whenever no geofence byte
\* waits on the link between two iterations, userNearHome of the perception
\* node equals userInside of the connectivity node.
C28_ProximityAgreement ==
    GeofenceBytes(g2c) = <<>> => userNearHome = userInside

\* The user entered and left again, and the perception node has read both
\* bytes.
C28_Witness ==
    /\ GeofenceBytes(g2c) = <<>>
    /\ ctrlObs.ticked /\ ctrlObs.cmd = 3 /\ ctrlObs.afterManual.userNearHome
    /\ ~userNearHome /\ ~userInside

\* The byte for the door state b.
StatusByte(b) == IF b THEN 1 ELSE 0

\* C29: whenever no status byte waits on the link between two iterations,
\* the copy of the door state in the connectivity node equals doorOpen of
\* the perception node, and the last status byte written, if any was
\* written in the last iteration, is the one for doorOpen.  Violated: the
\* connectivity node restarts when no network can be joined, and the
\* status bytes it had received but not read are gone; its copy says closed
\* while the door is open.
C29_MirrorAgreement ==
    c2g = <<>> =>
        /\ gwDoorOpen = doorOpen
        /\ ctrlObs.atEnd.out # <<>> =>
                ctrlObs.atEnd.out[Len(ctrlObs.atEnd.out)] = StatusByte(doorOpen)

\* The sweep the command byte b asks for.
SweepFor(b) == IF b = 1 THEN "open" ELSE "close"

\* The last iteration of the connectivity node delivered the command b and
\* its byte is still the newest one on the link.
Forwarded(b) ==
    /\ gwObs.looped /\ gwObs.msg \in DoorCmds /\ gwObs.msg.value = <<b>>
    /\ gwObs.afterCallback.tx = <<b>>
    /\ g2c # <<>> /\ g2c[Len(g2c)] = b

\* The last iteration of the perception node read the command b, ran its
\* sweep and wrote the status byte b.
Executed(b) ==
    /\ ctrlObs.ticked /\ ctrlObs.cmd = b
    /\ ctrlObs.afterLink.acts = Append(ctrlObs.afterManual.acts, SweepFor(b))
    /\ ctrlObs.afterLink.out = Append(ctrlObs.afterManual.out, b)
    /\ ctrlObs.afterLink.doorOpen = (b = 1)

\* The last iteration of the connectivity node read the status byte b and
\* published the door state b.
Reported(b) ==
    /\ gwObs.looped /\ gwObs.state = b
    /\ DoorMessages(gwObs.atEnd) = <<[topic |-> topic_door, value |-> b]>>

\* C24: with the session up and both loops running, a command byte at the
\* head of the link is read and executed by the perception node, a status
\* byte at the head of the link is read and published by the connectivity
\* node, and so every open or close command delivered by the broker is
\* followed by its sweep, its status byte and a door-state message of that
\* value.
C24_CommandResponse ==
    \A b \in {0, 1} :
        /\ (g2c # <<>> /\ Head(g2c) = b) ~> Executed(b)
        /\ (c2g # <<>> /\ Head(c2g) = b) ~> Reported(b)
        /\ Forwarded(b) ~> Executed(b)
        /\ Forwarded(b) ~> Reported(b)

\* An open command went all the way round: the door is open and the
\* connectivity node has published it.
C24_Witness ==
    /\ Reported(1) /\ gwDoorOpen /\ doorOpen
    /\ ctrlObs.ticked /\ ctrlObs.cmd = 1 /\ ctrlObs.afterLink.acts = <<"open">>
    /\ g2c = <<>> /\ c2g = <<>>

=============================================================================
